---- MODULE Spec2Model ----
(***************************************************************************)
(* Model of macro_keeper's config_generator! macro (src/src/config.rs),    *)
(* instantiated with the schema used throughout src/tests/config_test.rs:  *)
(*   (log_level, LogLevel, LogLevel::Info),                                *)
(*   (buffer_capacity, usize, 1024),                                       *)
(*   (environment, String, "production".to_string())                       *)
(*                                                                         *)
(* Encodings.  A Rust String is a sequence of one-character strings, so    *)
(* that parsing looks at the characters.  Option<T> and Result<T, E> are   *)
(* sequences of length at most one: <<>> is None / Err(_), <<v>> is        *)
(* Some(v) / Ok(v).  A HashMap<String, String> is a function from its key  *)
(* set to Strings.  A LogLevel is the name of its variant, a usize is a    *)
(* natural number (64-bit target).                                         *)
(***************************************************************************)
EXTENDS Naturals, Sequences, FiniteSets, TLC

\* Number of threads of the host program that call into the generated API.
NumThreads == 2

Threads == 1..NumThreads

(***************************************************************************)
(* Option / Result combinators used by the macros.                         *)
(***************************************************************************)
None == <<>>

Some(v) == <<v>>

is_some(o) == o # None

unwrap_or(o, d) == IF is_some(o) THEN o[1] ELSE d

(***************************************************************************)
(* String literals of the source and of the inputs.                        *)
(***************************************************************************)
S_Debug == <<"D", "e", "b", "u", "g">>

S_Info == <<"I", "n", "f", "o">>

S_Warn == <<"W", "a", "r", "n">>

S_Error == <<"E", "r", "r", "o", "r">>

S_InvalidLevel == <<"I", "n", "v", "a", "l", "i", "d", "L", "e", "v", "e", "l">>

S_2048 == <<"2", "0", "4", "8">>

S_4096 == <<"4", "0", "9", "6">>

S_production == <<"p", "r", "o", "d", "u", "c", "t", "i", "o", "n">>

S_development == <<"d", "e", "v", "e", "l", "o", "p", "m", "e", "n", "t">>

S_staging == <<"s", "t", "a", "g", "i", "n", "g">>

S_should_be_ignored == <<"s", "h", "o", "u", "l", "d", "_", "b", "e", "_", "i", "g", "n", "o", "r", "e", "d">>

\* A bug: two arms of the match swapped.
LogLevel_from_str_swapped(s) ==
    IF s = S_Debug THEN Some("Info")
    ELSE IF s = S_Info THEN Some("Debug")
    ELSE IF s = S_Warn THEN Some("Warn")
    ELSE IF s = S_Error THEN Some("Error")
    ELSE None

(***************************************************************************)
(* impl FromStr for LogLevel (src/tests/config_test.rs): an exact match on *)
(* the four labels.                                                        *)
(***************************************************************************)
LogLevel_from_str(s) ==
    IF s = S_Debug THEN Some("Debug")
    ELSE IF s = S_Info THEN Some("Info")
    ELSE IF s = S_Warn THEN Some("Warn")
    ELSE IF s = S_Error THEN Some("Error")
    ELSE None

(***************************************************************************)
(* s.parse::<usize>(): an optional leading '+', then one or more decimal   *)
(* digits, accumulated with checked arithmetic; anything else is an Err.   *)
(***************************************************************************)
DigitChars == <<"0", "1", "2", "3", "4", "5", "6", "7", "8", "9">>

IsDigit(c) == \E i \in 1..10 : DigitChars[i] = c

DigitValue(c) == (CHOOSE i \in 1..10 : DigitChars[i] = c) - 1

RECURSIVE StripZeros(_)
StripZeros(ds) ==
    IF Len(ds) > 1 /\ Head(ds) = "0" THEN StripZeros(Tail(ds)) ELSE ds

\* usize::MAX on a 64-bit target, as its decimal digits.
UsizeMaxDigits ==
    <<"1", "8", "4", "4", "6", "7", "4", "4", "0", "7",
      "3", "7", "0", "9", "5", "5", "1", "6", "1", "5">>

\* a <= b for two digit strings of the same length.
RECURSIVE DigitsLeq(_, _)
DigitsLeq(a, b) ==
    IF a = <<>> THEN TRUE
    ELSE IF DigitValue(Head(a)) < DigitValue(Head(b)) THEN TRUE
    ELSE IF DigitValue(Head(a)) > DigitValue(Head(b)) THEN FALSE
    ELSE DigitsLeq(Tail(a), Tail(b))

\* Whether the checked multiply-and-add of the digits overflows usize.
Overflows(ds) ==
    LET n == StripZeros(ds)
    IN  \/ Len(n) > Len(UsizeMaxDigits)
        \/ Len(n) = Len(UsizeMaxDigits) /\ ~DigitsLeq(n, UsizeMaxDigits)

RECURSIVE Accumulate(_, _)
Accumulate(acc, ds) ==
    IF ds = <<>> THEN acc
    ELSE Accumulate(acc * 10 + DigitValue(Head(ds)), Tail(ds))

usize_from_str(src) ==
    IF src = <<>> THEN None
    ELSE LET digits == IF Head(src) = "+" THEN Tail(src) ELSE src
         IN  IF digits = <<>> THEN None
             ELSE IF \E i \in 1..Len(digits) : ~IsDigit(digits[i]) THEN None
             ELSE IF Overflows(digits) THEN None
             ELSE Some(Accumulate(0, digits))

(***************************************************************************)
(* The schema of the tests: field names, types and declared defaults.      *)
(***************************************************************************)
FieldNames == {"log_level", "buffer_capacity", "environment"}

FieldType(f) ==
    CASE f = "log_level" -> "LogLevel"
      [] f = "buffer_capacity" -> "usize"
      [] f = "environment" -> "String"

FieldDefault(f) ==
    CASE f = "log_level" -> "Info"
      [] f = "buffer_capacity" -> 1024
      [] f = "environment" -> S_production

\* s.parse::<$type>().ok() for the non-String types of the schema.
parse(type, s) ==
    CASE type = "LogLevel" -> LogLevel_from_str(s)
      [] type = "usize" -> usize_from_str(s)

\* A bug: field names also match upper-case (environment-variable style) keys.
UpperKey(key) == IF key = "log_level" THEN "LOG_LEVEL" ELSE key

hash_get_any_case(hash, key) ==
    IF key \in DOMAIN hash THEN Some(hash[key])
    ELSE IF UpperKey(key) \in DOMAIN hash THEN Some(hash[UpperKey(key)])
    ELSE None

\* HashMap::get: Some(value) if the key is present.
hash_get(hash, key) == IF key \in DOMAIN hash THEN Some(hash[key]) ELSE None


\* What `unwrap_or_default()` would give instead of `unwrap_or($default)`.
TypeDefault(type) ==
    CASE type = "LogLevel" -> "Debug"
      [] type = "usize" -> 0
      [] type = "String" -> <<>>

\* A bug: an entry that fails to parse yields the type's default value.
config_field_parse_or_type_default(hash, key, default, type) ==
    IF type = "String"
    THEN unwrap_or(hash_get(hash, key), default)
    ELSE LET entry == hash_get(hash, key)
         IN  IF is_some(entry)
             THEN unwrap_or(parse(type, entry[1]), TypeDefault(type))
             ELSE default

\* A bug: an absent entry yields the type's default value.
config_field_absent_type_default(hash, key, default, type) ==
    IF type = "String"
    THEN unwrap_or(hash_get(hash, key), TypeDefault(type))
    ELSE LET entry == hash_get(hash, key)
         IN  IF is_some(entry)
             THEN unwrap_or(parse(type, entry[1]), default)
             ELSE TypeDefault(type)

\* __config_field!: the String arm clones the entry, the other arm parses it;
\* both fall back to the declared default.
config_field(hash, key, default, type) ==
    IF type = "String"
    THEN unwrap_or(hash_get(hash, key), default)
    ELSE LET entry == hash_get(hash, key)
         IN  unwrap_or(IF is_some(entry) THEN parse(type, entry[1]) ELSE None,
                       default)

\* The `let $field: $type = __config_field!(...)` lines of from_hashmap: the
\* struct the call would store.
ParseFields(hash) ==
    [f \in FieldNames |-> config_field(hash, f, FieldDefault(f), FieldType(f))]

\* The arguments `$default` that Default::default passes to new.
AllDefaults == [f \in FieldNames |-> FieldDefault(f)]

(***************************************************************************)
(* Inputs.  TestMaps are the maps of the test suite; Maps are all maps     *)
(* over the schema's keys and two foreign keys with a few raw values each. *)
(***************************************************************************)
EmptyMap == [k \in {} |-> <<>>]

M_test1 ==
    [log_level |-> S_Debug, buffer_capacity |-> S_2048,
     environment |-> S_development]

M_test6 ==
    [log_level |-> S_Warn, buffer_capacity |-> S_4096,
     environment |-> S_staging, extra_key |-> S_should_be_ignored]

M_test3 == [log_level |-> S_InvalidLevel]

M_test4 == [log_level |-> S_Debug]

TestMaps == {EmptyMap, M_test1, M_test6, M_test3, M_test4}

Keys == FieldNames \cup {"extra_key", "LOG_LEVEL"}

RawValues(k) ==
    CASE k = "log_level" -> {S_Debug, S_InvalidLevel, <<"d", "e", "b", "u", "g">>}
      [] k = "buffer_capacity" ->
            {S_2048, <<"+", "7">>, <<"0", "0", "7">>, <<"-", "1">>, <<>>,
             <<"2", "0", "4", "8", " ">>,
             <<"1", "8", "4", "4", "6", "7", "4", "4", "0", "7",
               "3", "7", "0", "9", "5", "5", "1", "6", "1", "6">>}
      [] k = "environment" -> {S_development, <<>>}
      [] k = "extra_key" -> {S_should_be_ignored}
      [] k = "LOG_LEVEL" -> {S_Warn}

AllRawValues == UNION {RawValues(k) : k \in Keys}

Maps ==
    UNION {{m \in [D -> AllRawValues] : \A k \in D : m[k] \in RawValues(k)} :
           D \in SUBSET Keys}

\* Option<HashMap<String, String>> arguments of from_hashmap.
Args(maps) == {None} \cup {Some(m) : m \in maps}

(***************************************************************************)
(* State.                                                                  *)
(*   store    the OnceLock static: None, or Some(instance)                 *)
(*   pc       where each thread is inside the call it is making            *)
(*   op       the operation of the thread's current or last call           *)
(*   hash     from_hashmap's local `hash` while the call runs              *)
(*   tmp      the field values a from_hashmap / default call carries       *)
(*   ret      how the thread's last call ended                             *)
(*   winners  every <<thread, operation, instance>> whose OnceLock::set    *)
(*            returned Ok                                                  *)
(*   seen     what the store held when the thread's current or last call   *)
(*            was entered                                                  *)
(***************************************************************************)
VARIABLES store, pc, op, hash, tmp, ret, winners, seen

vars == <<store, pc, op, hash, tmp, ret, winners, seen>>

MsgNotInit == "Config not initialized. Did you forget to call from_hashmap()?"

MsgAlreadyInit == "Config already initialized."

NoRet == [kind |-> "none", val |-> <<>>]

Panic(msg) == [kind |-> "panic", val |-> msg]

Ref(inst) == [kind |-> "ref", val |-> inst]

FieldRef(v) == [kind |-> "field", val |-> v]

\* A bug: an empty store reads as the all-defaults instance.
get_or_defaults(cell) == IF is_some(cell) THEN Ref(cell[1]) ELSE Ref(AllDefaults)

\* A bug: the expect message of new pasted into get.
get_wrong_message(cell) ==
    IF is_some(cell) THEN Ref(cell[1]) ELSE Panic(MsgAlreadyInit)

\* OnceLock::get().expect(..): a reference to the stored instance, or the panic.
get(cell) == IF is_some(cell) THEN Ref(cell[1]) ELSE Panic(MsgNotInit)

\* A bug: a cell that can be written again (a Mutex<Option<T>>, say).
OnceLock_set_overwrite(cell, v) == [cell |-> Some(v), ok |-> TRUE]

\* A bug: a cell that is taken out before it is tested (Mutex<Option<T>> with
\* take()), so a refused write leaves it empty.
OnceLock_set_take(cell, v) ==
    IF is_some(cell)
    THEN [cell |-> None, ok |-> FALSE]
    ELSE [cell |-> Some(v), ok |-> TRUE]

\* OnceLock::set: stores the value only in an empty cell and says whether it did.
OnceLock_set(cell, v) ==
    IF is_some(cell)
    THEN [cell |-> cell, ok |-> FALSE]
    ELSE [cell |-> Some(v), ok |-> TRUE]

Init ==
    /\ store = None
    /\ pc = [t \in Threads |-> "idle"]
    /\ op = [t \in Threads |-> "none"]
    /\ hash = [t \in Threads |-> None]
    /\ tmp = [t \in Threads |-> None]
    /\ ret = [t \in Threads |-> NoRet]
    /\ winners = {}
    /\ seen = [t \in Threads |-> None]

\* A call ends: its locals are dropped and its outcome is recorded.
Finish(t, r) ==
    /\ pc' = [pc EXCEPT ![t] = "idle"]
    /\ hash' = [hash EXCEPT ![t] = None]
    /\ tmp' = [tmp EXCEPT ![t] = None]
    /\ ret' = [ret EXCEPT ![t] = r]

\* from_hashmap(arg) is entered: unwrap_or_default and the field parsing,
\* all on locals.
call_from_hashmap(t, arg) ==
    /\ pc[t] = "idle"
    /\ LET h == unwrap_or(arg, EmptyMap)
       IN  /\ hash' = [hash EXCEPT ![t] = Some(h)]
           /\ tmp' = [tmp EXCEPT ![t] = Some(ParseFields(h))]
    /\ op' = [op EXCEPT ![t] = "from_hashmap"]
    /\ pc' = [pc EXCEPT ![t] = "fh_check"]
    /\ ret' = [ret EXCEPT ![t] = NoRet]
    /\ seen' = [seen EXCEPT ![t] = store]
    /\ UNCHANGED <<store, winners>>

\* A bug: the early return is missing, every call goes on to new.
from_hashmap_check_always_new(t) ==
    /\ pc[t] = "fh_check"
    /\ pc' = [pc EXCEPT ![t] = "new_set"]
    /\ UNCHANGED <<store, op, hash, tmp, ret, winners, seen>>

\* `if $static_name.get().is_some()`
from_hashmap_check(t) ==
    /\ pc[t] = "fh_check"
    /\ pc' = [pc EXCEPT ![t] = IF is_some(store) THEN "fh_get" ELSE "new_set"]
    /\ UNCHANGED <<store, op, hash, tmp, ret, winners, seen>>

\* A bug: the early return hands back the values this call computed.
from_hashmap_get_own(t) ==
    /\ pc[t] = "fh_get"
    /\ Finish(t, Ref(tmp[t][1]))
    /\ UNCHANGED <<store, op, winners, seen>>

\* `return Self::get()`
from_hashmap_get(t) ==
    /\ pc[t] = "fh_get"
    /\ Finish(t, get(store))
    /\ UNCHANGED <<store, op, winners, seen>>

\* A bug: an unsynchronized cell (a `static mut`, say): every write lands, and
\* only a write to the empty cell is counted as the initialization.
new_set_unsynchronized(t) ==
    /\ pc[t] = "new_set"
    /\ store' = Some(tmp[t][1])
    /\ winners' = IF is_some(store) THEN winners
                  ELSE winners \cup {<<t, op[t], tmp[t][1]>>}
    /\ pc' = [pc EXCEPT ![t] = "new_get"]
    /\ UNCHANGED <<hash, tmp, ret, op, seen>>

\* A bug: the write waits for the cell to become empty, which a populated
\* cell never does.
new_set_wait_empty(t) ==
    /\ pc[t] = "new_set"
    /\ ~is_some(store)
    /\ store' = tmp[t]
    /\ winners' = winners \cup {<<t, op[t], tmp[t][1]>>}
    /\ pc' = [pc EXCEPT ![t] = "new_get"]
    /\ UNCHANGED <<hash, tmp, ret, op, seen>>

\* A bug: a later write is layered over the stored instance, field by field.
new_set_merge(t) ==
    /\ pc[t] = "new_set"
    /\ store' = IF is_some(store)
                THEN Some([f \in FieldNames |->
                             IF tmp[t][1][f] = FieldDefault(f)
                             THEN store[1][f] ELSE tmp[t][1][f]])
                ELSE tmp[t]
    /\ winners' = winners \cup {<<t, op[t], tmp[t][1]>>}
    /\ pc' = [pc EXCEPT ![t] = "new_get"]
    /\ UNCHANGED <<hash, tmp, ret, op, seen>>

\* new: `$static_name.set(tmp_config).expect("Config already initialized.")`
new_set(t) ==
    /\ pc[t] = "new_set"
    /\ LET r == OnceLock_set(store, tmp[t][1])
       IN  /\ store' = r.cell
           /\ IF r.ok
              THEN /\ winners' = winners \cup {<<t, op[t], tmp[t][1]>>}
                   /\ pc' = [pc EXCEPT ![t] = "new_get"]
                   /\ UNCHANGED <<hash, tmp, ret>>
              ELSE /\ Finish(t, Panic(MsgAlreadyInit))
                   /\ UNCHANGED winners
    /\ UNCHANGED <<op, seen>>

\* new: the trailing `Self::get()`
new_get(t) ==
    /\ pc[t] = "new_get"
    /\ Finish(t, get(store))
    /\ UNCHANGED <<store, op, winners, seen>>

\* A bug: default() passes each type's default value, not the declared ones.
call_default_type_defaults(t) ==
    /\ pc[t] = "idle"
    /\ tmp' = [tmp EXCEPT ![t] = Some([f \in FieldNames |-> TypeDefault(FieldType(f))])]
    /\ op' = [op EXCEPT ![t] = "default"]
    /\ pc' = [pc EXCEPT ![t] = "new_set"]
    /\ ret' = [ret EXCEPT ![t] = NoRet]
    /\ seen' = [seen EXCEPT ![t] = store]
    /\ UNCHANGED <<store, hash, winners>>

\* <&'static $object as Default>::default() is entered: new($default, ...)
call_default(t) ==
    /\ pc[t] = "idle"
    /\ tmp' = [tmp EXCEPT ![t] = Some(AllDefaults)]
    /\ op' = [op EXCEPT ![t] = "default"]
    /\ pc' = [pc EXCEPT ![t] = "new_set"]
    /\ ret' = [ret EXCEPT ![t] = NoRet]
    /\ seen' = [seen EXCEPT ![t] = store]
    /\ UNCHANGED <<store, hash, winners>>

\* The getter $field() is entered.
call_getter(t, f) ==
    /\ pc[t] = "idle"
    /\ op' = [op EXCEPT ![t] = f]
    /\ pc' = [pc EXCEPT ![t] = "getter"]
    /\ ret' = [ret EXCEPT ![t] = NoRet]
    /\ seen' = [seen EXCEPT ![t] = store]
    /\ UNCHANGED <<store, hash, tmp, winners>>

\* The getter's body: `let config = Self::get(); &config.$field`
getter(t) ==
    /\ pc[t] = "getter"
    /\ LET r == get(store)
       IN  Finish(t, IF r.kind = "ref" THEN FieldRef(r.val[op[t]]) ELSE r)
    /\ UNCHANGED <<store, op, winners, seen>>

\* One step of thread t, whose from_hashmap calls take their map from maps.
Step(t, maps) ==
    \/ \E arg \in Args(maps) : call_from_hashmap(t, arg)
    \/ from_hashmap_check(t)
    \/ from_hashmap_get(t)
    \/ new_set(t)
    \/ new_get(t)
    \/ call_default(t)
    \/ \E f \in FieldNames : call_getter(t, f)
    \/ getter(t)

\* Any number of threads, the maps of the test suite.
Next == \E t \in Threads : Step(t, TestMaps)

Spec == Init /\ [][Next]_vars

\* One thread, every map of Maps.
NextSeq == Step(1, Maps)

SpecSeq == Init /\ [][NextSeq]_vars

\* The next step of the call thread t is inside of.
Advance(t) ==
    \/ from_hashmap_check(t)
    \/ from_hashmap_get(t)
    \/ new_set(t)
    \/ new_get(t)
    \/ getter(t)

\* Any number of threads; from_hashmap is given None or one map (which steps
\* a call takes does not depend on what its map holds).
NextLive == \E t \in Threads : Step(t, {M_test4})

\* The scheduler runs every thread that is inside a call again and again;
\* whether a thread makes another call is up to the program.
SpecFair == Init /\ [][NextLive]_vars /\ \A t \in Threads : WF_vars(Advance(t))

(***************************************************************************)
(* Properties.                                                             *)
(***************************************************************************)
InitOps == {"from_hashmap", "default"}

\* Thread t has finished a call of one of the operations in ops.
Finished(t, ops) == pc[t] = "idle" /\ op[t] \in ops /\ ret[t].kind # "none"

PanickedWith(t, msg) == ret[t].kind = "panic" /\ ret[t].val = msg

\* C1: write-once. Once the store holds an instance, no step of any call
\* empties it or changes the instance it holds.
C1_WriteOnce == [][is_some(store) => store' = store]_vars

\* The store is populated, a later initialization attempt has failed on it
\* and a getter has read it.
C1_Witness ==
    /\ is_some(store)
    /\ \E t \in Threads : Finished(t, InitOps) /\ PanickedWith(t, MsgAlreadyInit)
    /\ \E u \in Threads : Finished(u, FieldNames) /\ ret[u].kind = "field"

\* C2: a getter whose read finds the store empty ends with the
\* 'Config not initialized' panic, never with a value.
C2_GetterOnEmptyPanics ==
    [][\A t \in Threads :
          (pc[t] = "getter" /\ pc'[t] = "idle" /\ ~is_some(store))
              => (ret'[t].kind = "panic" /\ ret'[t].val = MsgNotInit)]_vars

\* A getter was called on the empty store and panicked; the store is still empty.
C2_Witness ==
    /\ ~is_some(store)
    /\ \E t \in Threads :
          /\ Finished(t, FieldNames)
          /\ seen[t] = None
          /\ PanickedWith(t, MsgNotInit)

\* C3: strict policy. A from_hashmap call entered after a from_hashmap call
\* has populated the store ends with a panic (checked on one thread, where
\* the first call has completed before the second is entered).
C3_SecondFromHashmapPanics ==
    \A t \in Threads :
        (/\ Finished(t, {"from_hashmap"})
         /\ is_some(seen[t])
         /\ \E w \in winners : w[2] = "from_hashmap")
            => ret[t].kind = "panic"

C5_RaceFree ==
    /\ Cardinality(winners) <= 1
    /\ (is_some(store) <=> winners # {})
    /\ \A w \in winners : store = Some(w[3])
    /\ \A t \in Threads :
          /\ pc[t] = "new_get"
                => \E w \in winners : w[1] = t /\ w[2] = op[t] /\ w[3] = tmp[t][1]
          /\ Finished(t, InitOps)
                => /\ Cardinality(winners) = 1
                   /\ ret[t].kind = "panic" => ret[t].val = MsgAlreadyInit
                   /\ ret[t].kind = "ref" => Some(ret[t].val) = store

\* Two threads entered initialization calls on the empty store; one returned
\* the instance, the other failed its write.
C5_Witness ==
    \E t, u \in Threads :
        /\ t # u
        /\ Finished(t, InitOps) /\ seen[t] = None /\ ret[t].kind = "ref"
        /\ Finished(u, InitOps) /\ seen[u] = None
        /\ PanickedWith(u, MsgAlreadyInit)

\* C6: a Default::default call entered when the store is populated does not
\* fail, leaves the stored instance unchanged and returns a reference to it.
C6_DefaultOnPopulatedReturnsStored ==
    \A t \in Threads :
        (Finished(t, {"default"}) /\ is_some(seen[t]))
            => /\ ret[t].kind = "ref"
               /\ Some(ret[t].val) = seen[t]
               /\ store = seen[t]

\* C7: Default::default on an empty store. When its write finds the store
\* empty the store holds the all-defaults instance, the call returns that
\* instance, and every value a getter returns is then its field's declared
\* default; a default call entered on the empty store fails only if another
\* caller's write came first.
C7_DefaultOnEmptyStoresDefaults ==
    \A t \in Threads :
        /\ (op[t] = "default" /\ pc[t] = "new_get") => store = Some(AllDefaults)
        /\ (Finished(t, {"default"}) /\ ret[t].kind = "ref")
              => /\ ret[t].val = AllDefaults
                 /\ store = Some(AllDefaults)
                 /\ \A u \in Threads :
                       (Finished(u, FieldNames) /\ ret[u].kind = "field")
                           => ret[u].val = FieldDefault(op[u])
        /\ (Finished(t, {"default"}) /\ seen[t] = None /\ ret[t].kind = "panic")
              => \E w \in winners : w[1] # t

\* default() was called on the empty store and returned; a getter has since
\* returned a declared default.
C7_Witness ==
    \E t, u \in Threads :
        /\ Finished(t, {"default"}) /\ seen[t] = None
        /\ ret[t] = Ref(AllDefaults)
        /\ Finished(u, {"buffer_capacity"}) /\ seen[u] = Some(AllDefaults)
        /\ ret[u].kind = "field" /\ ret[u].val = 1024

\* The from_hashmap call of thread t has written the store from its map h.
Stored(t) == op[t] = "from_hashmap" /\ pc[t] = "new_get"

\* C8: parse-with-fallback. In the instance the first from_hashmap call
\* stored, a field whose entry cannot be parsed holds its declared default,
\* an absent field holds its declared default, a String field holds its entry
\* and any other present field holds the parsed value; the call returns
\* normally.
C8_ParseWithFallback ==
    /\ Stored(1) =>
          LET h == hash[1][1]
              inst == store[1]
          IN  \A f \in FieldNames :
                 IF f \notin DOMAIN h THEN inst[f] = FieldDefault(f)
                 ELSE IF FieldType(f) = "String" THEN inst[f] = h[f]
                 ELSE IF ~is_some(parse(FieldType(f), h[f]))
                      THEN inst[f] = FieldDefault(f)
                      ELSE inst[f] = parse(FieldType(f), h[f])[1]
    /\ Finished(1, {"from_hashmap"}) => ret[1].kind = "ref"

\* An invalid log_level next to a valid buffer_capacity: the first falls
\* back, the second is parsed.
C8_Witness ==
    /\ Stored(1)
    /\ DOMAIN hash[1][1] = {"log_level", "buffer_capacity"}
    /\ hash[1][1]["log_level"] = S_InvalidLevel
    /\ hash[1][1]["buffer_capacity"] = S_2048
    /\ store[1]["log_level"] = "Info"
    /\ store[1]["buffer_capacity"] = 2048
    /\ store[1]["environment"] = S_production

\* C9: a first from_hashmap call given None, an empty map or a map without
\* any schema key stores the all-defaults instance.
C9_NoSchemaKeyGivesDefaults ==
    (Stored(1) /\ DOMAIN hash[1][1] \cap FieldNames = {})
        => store = Some(AllDefaults)

\* A map holding only foreign keys was stored as the all-defaults instance.
C9_Witness ==
    /\ Stored(1)
    /\ DOMAIN hash[1][1] = {"extra_key", "LOG_LEVEL"}
    /\ store = Some(AllDefaults)

\* The map h without its entries for keys outside the schema.
SchemaPart(h) == [k \in DOMAIN h \cap FieldNames |-> h[k]]

\* C10: unknown keys are ignored. The instance the first from_hashmap call
\* stores from a map is the one it would store from the map without its
\* non-schema entries, and the call returns normally.
C10_UnknownKeysIgnored ==
    /\ Stored(1) => store = Some(ParseFields(SchemaPart(hash[1][1])))
    /\ Finished(1, {"from_hashmap"}) => ret[1].kind = "ref"

\* A map with both foreign keys and schema keys was stored, with non-default
\* values.
C10_Witness ==
    /\ Stored(1)
    /\ {"extra_key", "LOG_LEVEL", "log_level"} \subseteq DOMAIN hash[1][1]
    /\ store[1]["log_level"] = "Debug"

\* What the raw value s of an entry for field f denotes, for the raw values
\* of Maps that are valid for the field's type: the label's variant, the
\* decimal number, the text itself.
C11_Valid(f, s) ==
    CASE f = "log_level" -> s = S_Debug
      [] f = "buffer_capacity" -> s \in {S_2048, <<"+", "7">>, <<"0", "0", "7">>}
      [] f = "environment" -> TRUE

C11_Value(f, s) ==
    CASE f = "log_level" -> "Debug"
      [] f = "buffer_capacity" -> IF s = S_2048 THEN 2048 ELSE 7
      [] f = "environment" -> s

\* C11: when the first from_hashmap call is given a valid entry for every
\* schema field, every field of the stored instance is the value its entry
\* denotes (the string itself for the String field), and a getter returns
\* the stored field.
C11_ValidEntriesStored ==
    /\ (/\ Stored(1)
        /\ FieldNames \subseteq DOMAIN hash[1][1]
        /\ \A f \in FieldNames : C11_Valid(f, hash[1][1][f]))
          => \A f \in FieldNames : store[1][f] = C11_Value(f, hash[1][1][f])
    /\ (Finished(1, FieldNames) /\ ret[1].kind = "field")
          => /\ is_some(store)
             /\ ret[1].val = store[1][op[1]]

\* from_hashmap stored {Debug, 2048, "development"} (each value needs a valid
\* entry) and the buffer_capacity getter has returned 2048.
C11_Witness ==
    /\ winners =
          {<<1, "from_hashmap",
             [log_level |-> "Debug", buffer_capacity |-> 2048,
              environment |-> S_development]>>}
    /\ Finished(1, {"buffer_capacity"})
    /\ ret[1].kind = "field" /\ ret[1].val = 2048

\* C12: atomic, complete visibility. A finished getter either failed with
\* 'Config not initialized' or returned the field of the one instance whose
\* write succeeded; the store never holds anything but that whole instance.
C12_AtomicVisibility ==
    /\ is_some(store) => \E w \in winners : store = Some(w[3])
    /\ \A t \in Threads :
          Finished(t, FieldNames)
              => \/ PanickedWith(t, MsgNotInit)
                 \/ /\ ret[t].kind = "field"
                    /\ Cardinality(winners) = 1
                    /\ \A w \in winners :
                          /\ ret[t].val = w[3][op[t]]
                          /\ store = Some(w[3])

\* A getter entered while the store was empty, raced with an initialization
\* and returned the field of the instance that was written.
C12_Witness ==
    \E u \in Threads :
        /\ Finished(u, {"buffer_capacity"})
        /\ seen[u] = None
        /\ ret[u].kind = "field" /\ ret[u].val = 2048

\* C13: a from_hashmap call that returns normally returns the instance the
\* store holds, and every value a getter returns is that instance's field, so
\* repeated getter calls agree.
C13_ReturnedRefIsStored ==
    \A t \in Threads :
        (Finished(t, {"from_hashmap"}) /\ ret[t].kind = "ref")
            => /\ Some(ret[t].val) = store
               /\ \A u \in Threads :
                     (Finished(u, FieldNames) /\ ret[u].kind = "field")
                         => ret[u].val = ret[t].val[op[u]]

\* from_hashmap returned the instance stored earlier, and a getter entered on
\* the populated store returned its field.
C13_Witness ==
    \E t, u \in Threads :
        /\ Finished(t, {"from_hashmap"}) /\ is_some(seen[t])
        /\ ret[t].kind = "ref" /\ ret[t].val # AllDefaults
        /\ Finished(u, {"environment"}) /\ is_some(seen[u])
        /\ ret[u].kind = "field" /\ ret[u].val = ret[t].val["environment"]

\* C14: the idempotent policy under concurrency. A from_hashmap call entered
\* on the empty store, in a run where only from_hashmap calls initialize,
\* returns normally the stored instance; it never fails.
C14_RacingFromHashmapReturns ==
    \A t \in Threads :
        (/\ Finished(t, {"from_hashmap"})
         /\ seen[t] = None
         /\ \A w \in winners : w[2] = "from_hashmap")
            => /\ ret[t].kind = "ref"
               /\ Some(ret[t].val) = store

\* Thread t ends its call with a panic in this step.
Fails(t) == pc[t] # "idle" /\ pc'[t] = "idle" /\ ret'[t].kind = "panic"

\* C15: failures leave the store unchanged. A call that ends in a panic
\* changes neither the store, nor the record of successful writes, nor what
\* other threads' calls returned; and a from_hashmap call that then writes
\* the store writes the instance of its own map.
C15_FailuresLeaveStore ==
    [][/\ \A t \in Threads :
             Fails(t) => /\ store' = store
                         /\ winners' = winners
                         /\ \A u \in Threads \ {t} : ret'[u] = ret[u]
       /\ \A t \in Threads :
             (op'[t] = "from_hashmap" /\ pc'[t] = "new_get")
                 => store' = Some(ParseFields(hash'[t][1]))]_vars

\* A getter failed on the empty store, and a from_hashmap call has since
\* stored the non-default instance of its own map.
C15_Witness ==
    \E t, u \in Threads :
        /\ Finished(u, FieldNames) /\ PanickedWith(u, MsgNotInit)
        /\ Stored(t)
        /\ store = Some(ParseFields(hash[t][1]))
        /\ store # Some(AllDefaults)

\* C16: each failure names the actual violation. 'Config not initialized'
\* is raised only by a getter whose read finds the store empty, 'Config
\* already initialized' only by a write that finds the store populated, and
\* an initialization call never ends with 'Config not initialized'.
C16_DiagnosticsNameViolation ==
    [][\A t \in Threads :
          Fails(t) =>
              /\ ret'[t].val = MsgNotInit
                    => (~is_some(store) /\ pc[t] = "getter" /\ op[t] \in FieldNames)
              /\ ret'[t].val = MsgAlreadyInit
                    => (is_some(store) /\ pc[t] = "new_set" /\ op[t] \in InitOps)
              /\ ret'[t].val \in {MsgNotInit, MsgAlreadyInit}]_vars

\* Both diagnostics have been raised: by a getter and by an initialization.
C16_Witness ==
    \E t, u \in Threads :
        /\ Finished(t, FieldNames) /\ PanickedWith(t, MsgNotInit)
        /\ Finished(u, InitOps) /\ PanickedWith(u, MsgAlreadyInit)

\* C17: provenance. The stored instance is the instance of the one call
\* whose write succeeded: the parse-with-fallback result of that from_hashmap
\* call's map, or the all-defaults instance of that default call, whole; and
\* that call returns the instance it computed.
C17_Provenance ==
    [][/\ Cardinality(winners') <= 1
       /\ is_some(store') => winners' # {}
       /\ \A w \in winners' :
             /\ store' = Some(w[3])
             /\ w[2] = "default" => w[3] = AllDefaults
             /\ w[2] = "from_hashmap" => \E m \in TestMaps : w[3] = ParseFields(m)
       /\ \A t \in Threads :
             /\ pc'[t] = "new_get"
                   => /\ store' = tmp'[t]
                      /\ op'[t] = "from_hashmap"
                            => tmp'[t][1] = ParseFields(hash'[t][1])
                      /\ op'[t] = "default" => tmp'[t][1] = AllDefaults
             /\ (pc[t] = "new_get" /\ pc'[t] = "idle")
                   => /\ ret'[t].kind = "ref"
                      /\ ret'[t].val = tmp[t][1]]_vars

\* A from_hashmap call won the race with the instance of its map and got it
\* back, while another initialization call lost.
C17_Witness ==
    \E t, u \in Threads :
        /\ Finished(t, {"from_hashmap"}) /\ seen[t] = None
        /\ ret[t].kind = "ref" /\ ret[t].val = ParseFields(M_test6)
        /\ winners = {<<t, "from_hashmap", ParseFields(M_test6)>>}
        /\ Finished(u, InitOps) /\ PanickedWith(u, MsgAlreadyInit)

\* C18: no operation blocks. Under fair scheduling every call a thread has
\* entered ends, by returning or by panicking.
C18_EveryCallEnds == \A t \in Threads : (pc[t] # "idle") ~> (pc[t] = "idle")

\* All threads entered calls on the empty store, ran concurrently and have
\* all ended, one by returning the instance and one by panicking.
C18_Witness ==
    /\ \A t \in Threads : pc[t] = "idle" /\ ret[t].kind # "none" /\ seen[t] = None
    /\ \E t \in Threads : ret[t].kind = "ref"
    /\ \E u \in Threads : ret[u].kind = "panic"

====
